---- MODULE Spec2Model ----
(***************************************************************************)
(* News classifier page (src/app.py).                                      *)
(*                                                                         *)
(* The page is a script that is executed from top to bottom once for every *)
(* user interaction.  What survives between two executions is the cached   *)
(* result of load_model, st.session_state (history, show_history) and the  *)
(* value of the feedback selectbox.  One execution is modelled by the      *)
(* operator Script, which follows the script section by section; every     *)
(* action of the model is one interaction: a widget of the current page is *)
(* operated and the script runs once.                                      *)
(*                                                                         *)
(* Numbers: a probability is an integer number of tenths (8 is 0.8).       *)
(* A text of the text box is the sequence of its code points (" a" is      *)
(* <<32, 97>>).                                                            *)
(***************************************************************************)
EXTENDS Integers, Sequences, FiniteSets, TLC

VARIABLES model, history, show_history, feedback, page, req

vars == <<model, history, show_history, feedback, page, req>>

(***************************************************************************)
(* Bounds of the model.                                                    *)
(***************************************************************************)
\* the largest history the checked behaviours build
MaxHist == 2
\* the largest history of the viewer specification (more than the ten shown)
MaxHistLong == 11

(***************************************************************************)
(* Program constants.                                                      *)
(***************************************************************************)
\* st.session_state.history[-10:]
HistoryShown == 10
\* item['text'][:100]
TextShown == 100

Min(a, b) == IF a < b THEN a ELSE b

\* the first probability instead of the largest
MaxOfFirst(v) == v[1]

RECURSIVE MaxOf(_)
\* max(proba) of a non-empty vector
MaxOf(v) ==
    IF Len(v) = 1 THEN v[1]
    ELSE LET m == MaxOf(Tail(v)) IN IF v[1] >= m THEN v[1] ELSE m

(***************************************************************************)
(* Texts.                                                                  *)
(***************************************************************************)
\* the characters str.strip() removes, those for which str.isspace() holds:
\* U+0009-000D, U+001C-001F, U+0020, U+0085, U+00A0, U+1680, U+2000-200A,
\* U+2028, U+2029, U+202F, U+205F, U+3000
Whitespace ==
    (9..13) \cup (28..32) \cup {133, 160, 5760} \cup (8192..8202)
        \cup {8232, 8233, 8239, 8287, 12288}

RECURSIVE LStrip(_)
LStrip(s) ==
    IF s # <<>> /\ Head(s) \in Whitespace
    THEN LStrip(Tail(s))
    ELSE s

RECURSIVE RStrip(_)
RStrip(s) ==
    IF s # <<>> /\ s[Len(s)] \in Whitespace
    THEN RStrip(SubSeq(s, 1, Len(s) - 1))
    ELSE s

\* the text as typed, not stripped
StripNothing(s) == s

\* str.strip()
Strip(s) == RStrip(LStrip(s))

\* " a"
TextA == <<32, 97>>

\* "b"
TextB == <<98>>

\* a hundred "x" and a "z": a text longer than the hundred characters an
\* entry shows
LongText == [i \in 1..(TextShown + 1) |-> IF i <= TextShown THEN 120 ELSE 122]

\* "", " \n", and a vertical tab followed by an em space (U+2003)
BlankTexts == {<<>>, <<32, 10>>, <<11, 8195>>}

(***************************************************************************)
(* The classification capability.  A loaded model is a fixed object: what  *)
(* predict and predict_proba do for a text is a property of the model.     *)
(* The variable `model` names the object load_model returned: "none" for   *)
(* the (None, None) of a missing file, or one of the classifiers below.    *)
(***************************************************************************)
Raises == [how |-> "raises", index |-> 0]

\* str(e) of the exception a classifier raises
RaisedText == "predict failed"
Returns(i) == [how |-> "returns", index |-> i]

Absent == [how |-> "absent", vec |-> <<>>]
ProbaRaises == [how |-> "raises", vec |-> <<>>]
Proba(v) == [how |-> "returns", vec |-> v]

\* A: a classifier with probabilities
\* B: a classifier without predict_proba
\* C: a classifier that returns an index outside the label map for some texts
\* D: a classifier whose predict_proba raises, or returns only zeros
\* E: a classifier whose predict raises for some texts, and whose
\*    predict_proba returns an empty vector
Models == {"A", "B", "C", "D", "E"}

\* `if model and label_map`
Loaded(m) == m # "none"

\* model.predict([text])[0]
Predict(m, text) ==
    CASE m = "A" -> IF text = TextB THEN Returns(1) ELSE Returns(0)
      [] m = "B" -> IF text = TextB THEN Returns(0) ELSE Returns(1)
      [] m = "C" -> IF text = TextB THEN Returns(1) ELSE Returns(2)
      [] m = "D" -> Returns(1)
      [] m = "E" -> IF text = TextB THEN Raises ELSE Returns(0)

\* model.predict_proba([text])[0]
PredictProba(m, text) ==
    CASE m = "A" -> IF text = TextB THEN Proba(<<2, 8>>) ELSE Proba(<<8, 2>>)
      [] m = "B" -> Absent
      [] m = "C" -> Proba(<<2, 8>>)
      [] m = "D" -> IF text = TextB THEN Proba(<<0, 0>>) ELSE ProbaRaises
      [] m = "E" -> Proba(<<>>)

\* readings of the clock, in seconds
Times == 59..60

\* a label map with a third key
label_map_wide == [i \in 0..2 |-> IF i = 0 THEN "FAKE" ELSE "REAL"]

\* label_map = {0: "FAKE", 1: "REAL"}
label_map == [i \in {0, 1} |-> IF i = 0 THEN "FAKE" ELSE "REAL"]

\* datetime.now().strftime("%Y-%m-%d %H:%M:%S"): the minute and the second
\* of a clock reading given in seconds
Strftime(t) == <<t \div 60, t % 60>>

(***************************************************************************)
(* Classify a News Article (lines 69-111).                                 *)
(***************************************************************************)
\* what a run shows besides the widgets: nothing, or one message or panel
NoNotice == [kind |-> "none", label |-> "", confidence |-> <<>>, text |-> ""]

Warning == [NoNotice EXCEPT !.kind = "warning"]

\* st.error(f"Classification failed: {str(e)}"): `text` is str(e)
Failed(e) == [NoNotice EXCEPT !.kind = "failed", !.text = e]

\* the local `confidence`: <<c>>, or <<>> for None (max of an empty vector
\* raises inside the inner try)
Confidence(proba) ==
    IF proba.how = "returns" /\ proba.vec # <<>>
    THEN <<MaxOf(proba.vec)>>
    ELSE <<>>

\* Python's truth value of `confidence`: None and 0.0 are false
Truthy(conf) == conf # <<>> /\ conf[1] # 0

\* the record with the stripped text stored
NewRecordStripped(text, label, conf, now) ==
    [text |-> Strip(text),
     label |-> label,
     confidence |-> IF Truthy(conf) THEN conf[1] ELSE 0,
     timestamp |-> Strftime(now)]

\* the record of lines 90-95; `confidence or 0.0`
NewRecord(text, label, conf, now) ==
    [text |-> text,
     label |-> label,
     confidence |-> IF Truthy(conf) THEN conf[1] ELSE 0,
     timestamp |-> Strftime(now)]

\* the result panel of lines 98-106: the label and, when `confidence` is
\* true, the confidence with two decimals (here in hundredths)
ResultPanel(label, conf) ==
    [NoNotice EXCEPT !.kind = "result",
                     !.label = label,
                     !.confidence = IF Truthy(conf) THEN <<conf[1] * 10>> ELSE <<>>]

\* lines 75-110, for a run in which `click` is the button that was pressed,
\* `in.text` the text of the text box and `in.now` the reading of the clock.
\* `calls` lists the methods of the classifier the run invokes (a missing
\* predict_proba is not invoked: the attribute lookup raises). The text of a
\* failure is str(e): for the KeyError of the label lookup, the index.
ClassifySection(m, h, click, in) ==
    IF ~Loaded(m) \/ click # "CLASSIFY"
    THEN [history |-> h, notice |-> NoNotice, calls |-> <<>>]
    ELSE IF Strip(in.text) = <<>>
    THEN [history |-> h, notice |-> Warning, calls |-> <<>>]
    ELSE IF Predict(m, in.text).how = "raises"
    THEN [history |-> h, notice |-> Failed(RaisedText), calls |-> <<"predict">>]
    ELSE IF Predict(m, in.text).index \notin DOMAIN label_map
    THEN [history |-> h,
          notice |-> Failed(ToString(Predict(m, in.text).index)),
          calls |-> <<"predict">>]
    ELSE LET label == label_map[Predict(m, in.text).index]
             conf == Confidence(PredictProba(m, in.text))
         IN [history |-> Append(h, NewRecord(in.text, label, conf, in.now)),
             notice |-> ResultPanel(label, conf),
             calls |-> IF PredictProba(m, in.text).how = "absent"
                       THEN <<"predict">>
                       ELSE <<"predict", "predict_proba">>]

(***************************************************************************)
(* Toggle History Button (lines 113-117).                                  *)
(***************************************************************************)
\* the label of line 115
ToggleLabel(show) == IF ~show THEN "Show History" ELSE "Hide History"

\* A button without a key is identified by its label: the button of this
\* run reports a press only when the pressed button carried the label this
\* run gives it.
ToggleSection(show, click) ==
    [label |-> ToggleLabel(show),
     show |-> IF click = ToggleLabel(show) THEN ~show ELSE show]

(***************************************************************************)
(* History Box (lines 119-147).                                            *)
(***************************************************************************)
\* item['text'][:100] followed by "..."
Shorten(text) == SubSeq(text, 1, Min(Len(text), TextShown)) \o <<46, 46, 46>>

\* one entry, lines 125-130: the confidence as a percentage with one
\* decimal (here in tenths of a percent)
Entry(item) ==
    [label |-> item.label,
     percent |-> item.confidence * 100,
     timestamp |-> item.timestamp,
     text |-> Shorten(item.text)]

\* st.session_state.history[-10:]
LastShown(h) == SubSeq(h, Len(h) - Min(Len(h), HistoryShown) + 1, Len(h))

Reversed(s) == [i \in 1..Len(s) |-> s[Len(s) + 1 - i]]

\* the entries of the loop of line 124
Entries(h) == LET last == Reversed(LastShown(h)) IN [i \in 1..Len(last) |-> Entry(last[i])]

Fields == <<"text", "label", "confidence", "timestamp", "feedback">>

RECURSIVE KeepColumns(_, _)
KeepColumns(cols, keys) ==
    IF cols = <<>> THEN <<>>
    ELSE IF Head(cols) \in keys THEN <<Head(cols)>> \o KeepColumns(Tail(cols), keys)
    ELSE KeepColumns(Tail(cols), keys)

\* pd.DataFrame(list of dicts).columns: the keys the records have
Columns(h) == KeepColumns(Fields, UNION {DOMAIN h[i] : i \in 1..Len(h)})

\* df.to_csv(index=False): the header and one row of cells per record; a
\* missing value is written as the empty string
ToCsv(h) ==
    LET cols == Columns(h)
    IN [header |-> cols,
        rows |-> [i \in 1..Len(h) |->
                    [j \in 1..Len(cols) |->
                        IF cols[j] \in DOMAIN h[i] THEN h[i][cols[j]] ELSE ""]]]

Cleared == [NoNotice EXCEPT !.kind = "cleared"]

\* Clear History dropping only the newest record
HistorySectionPop(loaded, h, show, click) ==
    IF ~(show /\ loaded)
    THEN [history |-> h, viewer |-> "none", entries |-> <<>>,
          download |-> <<>>, notice |-> NoNotice]
    ELSE IF h = <<>>
    THEN [history |-> h, viewer |-> "placeholder", entries |-> <<>>,
          download |-> <<>>, notice |-> NoNotice]
    ELSE [history |-> IF click = "Clear History" THEN SubSeq(h, 1, Len(h) - 1) ELSE h,
          viewer |-> "entries",
          entries |-> Entries(h),
          download |-> IF click = "Export History" THEN <<ToCsv(h)>> ELSE <<>>,
          notice |-> IF click = "Clear History" THEN Cleared ELSE NoNotice]

\* lines 120-147: `download` is <<csv>> when the run offers the download
HistorySection(loaded, h, show, click) ==
    IF ~(show /\ loaded)
    THEN [history |-> h, viewer |-> "none", entries |-> <<>>,
          download |-> <<>>, notice |-> NoNotice]
    ELSE IF h = <<>>
    THEN [history |-> h, viewer |-> "placeholder", entries |-> <<>>,
          download |-> <<>>, notice |-> NoNotice]
    ELSE [history |-> IF click = "Clear History" THEN <<>> ELSE h,
          viewer |-> "entries",
          entries |-> Entries(h),
          download |-> IF click = "Export History" THEN <<ToCsv(h)>> ELSE <<>>,
          notice |-> IF click = "Clear History" THEN Cleared ELSE NoNotice]

(***************************************************************************)
(* Provide Feedback (lines 149-158).                                       *)
(***************************************************************************)
\* the feedback stored on the oldest record
SetFeedbackFirst(h) ==
    [h EXCEPT ![1] =
        [k \in DOMAIN h[1] \cup {"feedback"} |->
            IF k = "feedback" THEN "Incorrect" ELSE h[1][k]]]

\* st.session_state.history[-1]["feedback"] = "Incorrect"
SetFeedback(h) ==
    [h EXCEPT ![Len(h)] =
        [k \in DOMAIN h[Len(h)] \cup {"feedback"} |->
            IF k = "feedback" THEN "Incorrect" ELSE h[Len(h)][k]]]

Submitted == [NoNotice EXCEPT !.kind = "submitted"]

\* lines 150-158: `choice` is the value of the selectbox in this run. A
\* widget that a run does not render loses its value.
FeedbackSection(loaded, h, choice, click) ==
    IF ~(loaded /\ h # <<>>)
    THEN [history |-> h, box |-> FALSE, submit |-> FALSE, feedback |-> "",
          notice |-> NoNotice]
    ELSE IF choice = "No" /\ click = "Submit Feedback"
    THEN [history |-> SetFeedback(h), box |-> TRUE, submit |-> TRUE,
          feedback |-> choice, notice |-> Submitted]
    ELSE [history |-> h, box |-> TRUE, submit |-> (choice = "No"),
          feedback |-> choice, notice |-> NoNotice]

(***************************************************************************)
(* One execution of the script.                                            *)
(***************************************************************************)
FirstNotice(ns) ==
    IF \E i \in 1..Len(ns) : ns[i].kind # "none"
    THEN ns[CHOOSE i \in 1..Len(ns) :
                /\ ns[i].kind # "none"
                /\ \A j \in 1..(i - 1) : ns[j].kind = "none"]
    ELSE NoNotice

Script(m, h, show, choice, click, in) ==
    LET c == ClassifySection(m, h, click, in)
        t == ToggleSection(show, click)
        v == HistorySection(Loaded(m), c.history, t.show, click)
        f == FeedbackSection(Loaded(m), v.history, choice, click)
    IN [history |-> f.history,
        show_history |-> t.show,
        feedback |-> f.feedback,
        page |-> [load_error |-> ~Loaded(m),
                  classify_button |-> Loaded(m),
                  toggle_label |-> t.label,
                  viewer |-> v.viewer,
                  entries |-> v.entries,
                  download |-> v.download,
                  feedback_box |-> f.box,
                  submit_button |-> f.submit,
                  notice |-> FirstNotice(<<c.notice, v.notice, f.notice>>),
                  calls |-> c.calls]]

\* what a run is given: the text of the text box and the reading of the clock
NoInput == [text |-> <<>>, now |-> 59]

\* the submissions of the checked sessions: blank texts, and two articles
\* at each reading of the clock
Submissions ==
    {[text |-> t, now |-> 59] : t \in BlankTexts} \cup [text : {TextA, TextB}, now : Times]

\* the submissions of the viewer's sessions
LongSubmissions == {[text |-> LongText, now |-> 59], [text |-> TextB, now |-> 60]}

\* a request: the button pressed ("" when the run is caused by another
\* widget), and what the run is given
Request(click, in) == [widget |-> click, text |-> in.text, now |-> in.now]

(***************************************************************************)
(* The state after the first execution of the script, with the model file  *)
(* present or absent.                                                      *)
(***************************************************************************)
Init ==
    /\ model \in Models \cup {"none"}
    /\ history = <<>>
    /\ show_history = FALSE
    /\ feedback = ""
    /\ page = Script(model, <<>>, FALSE, "", "", NoInput).page
    /\ req = Request("", NoInput)

\* one interaction: the script runs with the pressed button and the inputs
Interact(click, choice, in, bound) ==
    LET r == Script(model, history, show_history, choice, click, in)
    IN /\ Len(r.history) <= bound
       /\ history' = r.history
       /\ show_history' = r.show_history
       /\ feedback' = r.feedback
       /\ page' = r.page
       /\ req' = Request(click, in)
       /\ UNCHANGED model

Classify(submissions, bound) ==
    /\ page.classify_button
    /\ \E in \in submissions : Interact("CLASSIFY", feedback, in, bound)

\* the toggle button is pressed: it carries the label the page gave it
Toggle(bound) ==
    \E label \in {page.toggle_label} : Interact(label, feedback, NoInput, bound)

ClearHistory(bound) ==
    /\ page.viewer = "entries"
    /\ Interact("Clear History", feedback, NoInput, bound)

ExportHistory(bound) ==
    /\ page.viewer = "entries"
    /\ Interact("Export History", feedback, NoInput, bound)

Download(bound) ==
    /\ page.download # <<>>
    /\ Interact("Download CSV", feedback, NoInput, bound)

SelectFeedback(bound) ==
    /\ page.feedback_box
    /\ \E choice \in {"", "Yes", "No"} \ {feedback} : Interact("", choice, NoInput, bound)

SubmitFeedback(bound) ==
    /\ page.submit_button
    /\ Interact("Submit Feedback", feedback, NoInput, bound)

\* the text box is edited without a button being pressed
EditText(bound) ==
    \E choice \in {feedback} : Interact("", choice, NoInput, bound)

Next ==
    \/ Classify(Submissions, MaxHist)
    \/ Toggle(MaxHist)
    \/ ClearHistory(MaxHist)
    \/ ExportHistory(MaxHist)
    \/ Download(MaxHist)
    \/ SelectFeedback(MaxHist)
    \/ SubmitFeedback(MaxHist)
    \/ EditText(MaxHist)

Spec == Init /\ [][Next]_vars

(***************************************************************************)
(* Sessions of one classifier in which the history outgrows the ten        *)
(* entries the viewer shows.                                               *)
(***************************************************************************)
InitLong == Init /\ model = "A"

NextLong ==
    \/ Classify(LongSubmissions, MaxHistLong)
    \/ Toggle(MaxHistLong)
    \/ ClearHistory(MaxHistLong)
    \/ ExportHistory(MaxHistLong)
    \/ Download(MaxHistLong)
    \/ EditText(MaxHistLong)

SpecLong == InitLong /\ [][NextLong]_vars

(***************************************************************************)
(* Properties.                                                             *)
(***************************************************************************)
\* a text that is empty or holds only whitespace
Blank(t) ==
    \A i \in 1..Len(t) :
        \/ t[i] \in {9, 10, 11, 12, 13, 28, 29, 30, 31, 32, 133, 160, 5760}
        \/ t[i] \in 8192..8202
        \/ t[i] \in {8232, 8233, 8239, 8287, 12288}

\* the step is the processing of a CLASSIFY request
Classifying == req'.widget = "CLASSIFY" /\ Loaded(model)

\* ... for a text that is not blank, with predict returning 0 or 1
Classified ==
    /\ Classifying
    /\ ~Blank(req'.text)
    /\ Predict(model, req'.text).how = "returns"
    /\ Predict(model, req'.text).index \in {0, 1}

Last(h) == h[Len(h)]

\* h2 is h1 with one record added at the end
Extends(h1, h2) ==
    /\ Len(h2) = Len(h1) + 1
    /\ \A i \in 1..Len(h1) : h2[i] = h1[i]

\* C1: a CLASSIFY request with a text that is not blank, for which predict
\* returns 0 or 1, appends exactly one record at the end of history; its text
\* is the text submitted and its label is FAKE for 0 and REAL for 1; the
\* records stored before are unchanged. This holds for every behaviour of
\* predict_proba.
C1_Appends ==
    [][Classified =>
        /\ Extends(history, history')
        /\ Last(history').text = req'.text
        /\ Last(history').label =
              (IF Predict(model, req'.text).index = 0 THEN "FAKE" ELSE "REAL")]_vars

\* a record was appended to a history that held one, for a text with a
\* leading blank, by a classifier without predict_proba
C1_Witness ==
    /\ req.widget = "CLASSIFY"
    /\ req.text = <<32, 97>>
    /\ PredictProba(model, req.text).how = "absent"
    /\ Len(history) = 2
    /\ Last(history).text = <<32, 97>>
    /\ Last(history).label = "REAL"
    /\ page.notice.kind = "result"

\* C2: a CLASSIFY request whose text is empty or only whitespace changes
\* neither history nor show_history, and calls nothing of the model.
C2_BlankNoChange ==
    [][(req'.widget = "CLASSIFY" /\ Blank(req'.text)) =>
        /\ history' = history
        /\ show_history' = show_history
        /\ page'.calls = <<>>]_vars

\* a whitespace-only text was submitted while history held records, and the
\* warning is shown
C2_Witness ==
    /\ req.widget = "CLASSIFY"
    /\ req.text = <<11, 8195>>
    /\ Len(history) = 2
    /\ show_history
    /\ page.notice.kind = "warning"
    /\ page.calls = <<>>

\* C3 as claimed: an exception of predict, of predict_proba or of the label
\* lookup is shown as one classification-failure message and the request
\* adds no record.
C3_AsClaimed ==
    [][(/\ Classifying
        /\ ~Blank(req'.text)
        /\ \/ Predict(model, req'.text).how = "raises"
           \/ Predict(model, req'.text).index \notin {0, 1}
           \/ PredictProba(model, req'.text).how = "raises") =>
        /\ history' = history
        /\ page'.notice.kind = "failed"]_vars

\* C3, amended: an exception of predict or of the label lookup is shown as
\* one classification-failure message and the request adds no record; an
\* exception of predict_proba after a prediction the label map holds shows
\* no failure, and the record is appended with confidence 0.
C3_FailureKeepsHistory ==
    [][(Classifying /\ ~Blank(req'.text)) =>
        /\ (\/ Predict(model, req'.text).how = "raises"
            \/ Predict(model, req'.text).index \notin {0, 1}) =>
                /\ history' = history
                /\ page'.notice.kind = "failed"
        /\ (Classified /\ PredictProba(model, req'.text).how = "raises") =>
                /\ Extends(history, history')
                /\ Last(history').confidence = 0
                /\ page'.notice.kind = "result"]_vars

\* the label lookup failed for a request made while history held a record
C3_Witness ==
    /\ req.widget = "CLASSIFY"
    /\ Predict(model, req.text) = Returns(2)
    /\ ~Blank(req.text)
    /\ page.notice.kind = "failed"
    /\ Len(history) = 1

\* v holds c, and nothing larger
IsMax(c, v) == (\E i \in 1..Len(v) : v[i] = c) /\ (\A i \in 1..Len(v) : v[i] <= c)

\* C4: the confidence stored by a successful classification is the largest
\* element of the vector predict_proba returns, and 0 when predict_proba is
\* absent, raises or returns no element; no failure is reported and the record
\* is appended; every stored confidence lies between 0 and 1 (0 and 10
\* tenths).
C4_Confidence ==
    [][Classified =>
        /\ Extends(history, history')
        /\ page'.notice.kind = "result"
        /\ LET p == PredictProba(model, req'.text)
               c == Last(history').confidence
           IN IF p.how = "returns" /\ p.vec # <<>> THEN IsMax(c, p.vec) ELSE c = 0
        /\ \A i \in 1..Len(history') : history'[i].confidence \in 0..10]_vars

\* predict gave 1 and predict_proba gave [0.2, 0.8]: REAL with confidence 0.8
C4_Witness ==
    /\ req.widget = "CLASSIFY"
    /\ Predict(model, req.text) = Returns(1)
    /\ PredictProba(model, req.text) = Proba(<<2, 8>>)
    /\ history # <<>>
    /\ Last(history).label = "REAL"
    /\ Last(history).confidence = 8
    /\ page.notice.confidence = <<80>>

\* C5 as claimed: while the viewer is on, the entries of the page are the
\* last min(10, len) records of the current history, newest first, and with
\* an empty history the page shows the placeholder and no entry.
C5_AsClaimed ==
    (show_history /\ Loaded(model)) =>
        IF history = <<>>
        THEN page.viewer = "placeholder" /\ page.entries = <<>>
        ELSE /\ page.viewer = "entries"
             /\ Len(page.entries) = Min(HistoryShown, Len(history))
             /\ \A i \in 1..Len(page.entries) :
                    page.entries[i] = Entry(history[Len(history) + 1 - i])

\* C6 as claimed: the exported CSV has the five columns text, label,
\* confidence, timestamp, feedback, and an empty feedback cell for every
\* record without feedback.
C6_AsClaimed ==
    page.download # <<>> =>
        LET csv == page.download[1]
        IN /\ csv.header = <<"text", "label", "confidence", "timestamp", "feedback">>
           /\ Len(csv.rows) = Len(history)
           /\ \A i \in 1..Len(history) :
                  "feedback" \notin DOMAIN history[i] => csv.rows[i][5] = ""

\* C7 as claimed: without a model the session state stays the default one.
C7_AsClaimed == ~Loaded(model) => (history = <<>> /\ show_history = FALSE)

\* C8: a Submit Feedback request is made only with the choice "No", a model
\* and a history that is not empty; it sets feedback to "Incorrect" on the
\* last record and changes nothing else. Choosing a value of the selectbox
\* changes no record.
C8_FeedbackOnLast ==
    [][/\ page.submit_button => (Loaded(model) /\ history # <<>> /\ feedback = "No")
       /\ req'.widget = "Submit Feedback" =>
            /\ Len(history') = Len(history)
            /\ \A i \in 1..(Len(history) - 1) : history'[i] = history[i]
            /\ DOMAIN Last(history') = DOMAIN Last(history) \cup {"feedback"}
            /\ Last(history').feedback = "Incorrect"
            /\ \A k \in {"text", "label", "confidence", "timestamp"} :
                    Last(history')[k] = Last(history)[k]
       /\ req'.widget = "" => history' = history]_vars

\* feedback was submitted for the second of two records
C8_Witness ==
    /\ req.widget = "Submit Feedback"
    /\ Len(history) = 2
    /\ "feedback" \notin DOMAIN history[1]
    /\ history[2].feedback = "Incorrect"
    /\ history[1].text # history[2].text
    /\ page.notice.kind = "submitted"

\* C9: one interaction leaves history unchanged, or appends one record, or
\* empties it, or sets the feedback of its last record; a Clear History
\* request empties it whatever its length; a feedback that is set stays set
\* until history is emptied.
C9_HistorySteps ==
    [][/\ \/ history' = history
          \/ Extends(history, history')
          \/ history' = <<>>
          \/ /\ history # <<>>
             /\ Len(history') = Len(history)
             /\ \A i \in 1..(Len(history) - 1) : history'[i] = history[i]
             /\ Last(history') = [k \in DOMAIN Last(history) \cup {"feedback"} |->
                    IF k = "feedback" THEN "Incorrect" ELSE Last(history)[k]]
       /\ req'.widget = "Clear History" => history' = <<>>
       /\ history' # <<>> =>
            \A i \in 1..Len(history) :
                "feedback" \in DOMAIN history[i] =>
                    (i <= Len(history') /\ "feedback" \in DOMAIN history'[i])]_vars

\* a history of two records was cleared
C9_Witness ==
    /\ req.widget = "Clear History"
    /\ history = <<>>
    /\ Len(page.entries) = 2
    /\ page.notice.kind = "cleared"

\* C10 as claimed: the label of the toggle button of the page is
\* "Show History" exactly when show_history is false and "Hide History"
\* exactly when it is true.
C10_AsClaimed ==
    /\ page.toggle_label = "Show History" <=> ~show_history
    /\ page.toggle_label = "Hide History" <=> show_history

====
